---- MODULE Spec2Model ----
(***************************************************************************)
(* The dispatcher core of covalent: run_workflow, the event loop           *)
(* _run_planned_workflow, the submission gateway _submit_task, the         *)
(* readiness tracker and _finalize_dispatch (covalent_dispatcher/_core/    *)
(* dispatcher.py), over the store updates of Result._update_node and       *)
(* Result._update_dispatch (covalent_dispatcher/_dal/result.py).           *)
(*                                                                         *)
(* One dispatch is modelled.  Its transport graph, node names and          *)
(* parameter values are chosen in Init.  The runner that executes a        *)
(* submitted task is outside the dispatcher; it is modelled by its         *)
(* contract: it persists and reports any number of RUNNING updates, at     *)
(* most one DISPATCHING update and exactly one terminal update.            *)
(***************************************************************************)
EXTENDS Integers, Sequences, FiniteSets, TLC

\* ---------------------------------------------------------------- bounds
NumNodes == 3
MaxClock == 1
MaxRunningEvents == 1
MaxDispatchingEvents == 1
MaxRuns == 2
MaxOptional == 1
MaxFaults == 2
MaxBadExecutors == 1
MaxWaitFor == 1
MaxEdges == 3
MaxArgIndex == 1
\* the _update_node calls that may execute at the same time
MaxThreads == 2

Nodes == 0 .. (NumNodes - 1)

\* ------------------------------------------------------- program constants
COMPLETED == "COMPLETED"
FAILED == "FAILED"
CANCELLED == "CANCELLED"
RUNNING == "RUNNING"
DISPATCHING == "DISPATCHING"
NEW_OBJECT == "NEW_OBJECT"

parameter_prefix == ":parameter:"
postprocess_prefix == ":postprocess:"

\* Python's None, for a status, an output, an error and a time.
None == "None"
NoError == << >>
NoTime == -1

Terminal == {COMPLETED, FAILED, CANCELLED}

\* A name is the sequence of its parts; startswith tests the first part.
TaskName == <<"task">>
ParameterName == <<parameter_prefix, "x">>
PostprocessName == <<postprocess_prefix>>
NodeNames == {TaskName, ParameterName, PostprocessName}
Values == {"lit_a", "lit_b"}
LiteralOf(n) == IF n % 2 = 0 THEN "lit_a" ELSE "lit_b"

startswith(s, prefix) == Len(s) >= 1 /\ s[1] = prefix

dispatch_id == <<"dispatch", 0>>
\* Another dispatch, whose loop is active all the time.
other_dispatch_id == <<"other", 0>>
sub_id(n) == <<"sub", n>>

\* The detail of a status-queue entry: {} or {"sub_dispatch_id": ...}.
NoDetail == << >>
SubDetail(n) == << <<"sub_dispatch_id", sub_id(n)>> >>
dict_get(detail, key) ==
    detail[CHOOSE k \in 1 .. Len(detail) : detail[k][1] = key][2]

VARIABLES
    \* the transport graph and the electron attributes (read-only here)
    links, wait_for, name, value, executor,
    \* the incoming edges handed to _get_abstract_task_inputs on its own
    incoming,
    \* what the environment of this behaviour may do (read-only)
    caps,
    \* the store: tg[n] is the record of node n, meta the dispatch record
    tg, meta,
    \* the fields _start_time, _end_time, _status, _error and _result of the
    \* Result object, which commit has yet to write
    pending,
    \* run_workflow / _run_planned_workflow
    pc, ready_nodes, unresolved_tasks, tasks_left, pending_parents,
    status_queues, dispatch_status,
    \* the environment: the clock, the runner tasks, the sub-dispatch tasks
    clock, runner_task, running_events, dispatching_events, sub_tasks,
    \* where the run_workflow task of each sub-dispatch is
    sub_pc,
    \* where the task of a second run_dispatch for the sub-dispatch is, and the
    \* entries of the queue it has replaced in _status_queues
    sub_again, detached,
    \* the abstract inputs passed to the runner task of a node
    abs_task_input,
    \* the local completed_num of the _update_node call for a node
    completed_num,
    \* bookkeeping calls of the data service
    finalize_calls, persist_calls,
    \* history of the current run
    runs, short_circuited, raised, submit_count, ready_count, reported, consumed,
    dispatching_consumed,
    \* the KeyErrors raised by notify_node_status to its callers
    notify_errors

graphVars == <<links, wait_for, name, value, executor, incoming, caps>>
storeVars == <<tg, meta, pending>>
loopVars == <<pc, ready_nodes, unresolved_tasks, tasks_left, pending_parents,
              status_queues, dispatch_status>>
envVars == <<clock, runner_task, running_events, dispatching_events, sub_tasks,
             sub_pc, sub_again, detached, abs_task_input, completed_num>>
svcVars == <<finalize_calls, persist_calls>>
histVars == <<runs, short_circuited, raised, submit_count, ready_count, reported,
              consumed, dispatching_consumed, notify_errors>>
vars == <<graphVars, storeVars, loopVars, envVars, svcVars, histVars>>

\* ------------------------------------------------------------- executors
\* The "executor" attribute of an electron: a value with its Python type.
LocalName == <<"str", "local">>
UnknownName == <<"str", "nosuch">>
NotAName == <<"int", "0">>
LocalInstance == <<"BaseExecutor", "local">>
ExecutorValues == {LocalName, UnknownName, NotAName, LocalInstance}
executor_plugins_map == {"local"}

\* _ExecutorManager.get_executor: the executor, or the exception it raises.
get_executor(nm) ==
    IF nm[1] = "BaseExecutor" THEN [raises |-> None, executor |-> nm[2]]
    ELSE IF nm[1] = "str"
         THEN IF nm[2] \in executor_plugins_map
              THEN [raises |-> None, executor |-> nm[2]]
              ELSE [raises |-> "ValueError", executor |-> None]
         ELSE [raises |-> "TypeError", executor |-> None]

\* ----------------------------------------------------------------- graph
AllLinks == {e \in Nodes \X Nodes : e[1] < e[2]}
Parents(n) == {l[1] : l \in {e \in links : e[2] = n}}
Children(n) == {l[2] : l \in {e \in links : e[1] = n}}
in_degree(n) == Cardinality({e \in links : e[2] = n})

RECURSIVE SortedSeq(_)
SortedSeq(S) ==
    IF S = {} THEN << >>
    ELSE LET m == CHOOSE x \in S : \A y \in S : x <= y
         IN  <<m>> \o SortedSeq(S \ {m})

\* The edges of the list `incoming` that leave node n; they all enter the last
\* node.
incoming_from(n) == {k \in 1 .. Len(incoming) : incoming[k].source = n}

\* datasvc.get_node_successors: the child of every edge that leaves the node,
\* once for each edge.
get_node_successors(n) ==
    SortedSeq(Children(n)) \o [k \in 1 .. Cardinality(incoming_from(n)) |-> NumNodes - 1]

\* The attributes of an edge of the transport graph.
ArgEdge(i) == [param_type |-> "arg", arg_index |-> i, edge_name |-> "arg",
               wait_for |-> FALSE]
KwargEdge(k) == [param_type |-> "kwarg", arg_index |-> -1, edge_name |-> k,
                 wait_for |-> FALSE]
WaitForEdge == [param_type |-> None, arg_index |-> -1, edge_name |-> "!waiting_edge",
                wait_for |-> TRUE]
EdgeAttrs == {ArgEdge(i) : i \in 0 .. MaxArgIndex} \cup {KwargEdge(k) : k \in {"a", "b"}}
                 \cup {WaitForEdge}

\* The edges of the dispatch's graph: a wait_for edge, or else the parent is a
\* positional argument, the later parent the earlier argument.
attrs_of(l) == IF l \in wait_for THEN WaitForEdge ELSE ArgEdge(NumNodes - 1 - l[1])

\* datasvc.get_incoming_edges: the edges into a node, in the order of their sources.
get_incoming_edges(n) ==
    LET sources == SortedSeq(Parents(n))
    IN  [k \in 1 .. Len(sources) |->
            [source |-> sources[k], attrs |-> attrs_of(<<sources[k], n>>)]]
        \o (IF n = NumNodes - 1 THEN incoming ELSE << >>)

\* sorted(args, key=lambda x: x[1]): a stable sort of (parent, arg_index) pairs.
RECURSIVE insert_by_index(_, _)
insert_by_index(sorted, x) ==
    IF sorted = << >> THEN <<x>>
    ELSE IF Head(sorted)[2] <= x[2]
         THEN <<Head(sorted)>> \o insert_by_index(Tail(sorted), x)
         ELSE <<x>> \o sorted

unsorted(args) == args

RECURSIVE sorted_by_index(_)
sorted_by_index(args) ==
    IF args = << >> THEN << >>
    ELSE insert_by_index(sorted_by_index(SubSeq(args, 1, Len(args) - 1)),
                         args[Len(args)])

\* The test `d.get("wait_for")` of _get_abstract_task_inputs.
IsWaitFor(d) == d.wait_for

\* The loop of _get_abstract_task_inputs over the incoming edges.
RECURSIVE abstract_inputs_loop(_, _)
abstract_inputs_loop(edges, acc) ==
    IF edges = << >> THEN acc
    ELSE LET parent == Head(edges).source
             d == Head(edges).attrs
         IN  abstract_inputs_loop(Tail(edges),
                 IF IsWaitFor(d) THEN acc
                 ELSE IF d.param_type = "arg"
                      THEN [acc EXCEPT !.args = Append(@, <<parent, d.arg_index>>)]
                 ELSE IF d.param_type = "kwarg"
                      THEN [acc EXCEPT !.kwargs = (d.edge_name :> parent) @@ @]
                 ELSE acc)

\* _get_abstract_task_inputs, given the incoming edges of the node.
_get_abstract_task_inputs(edges) ==
    LET abstract_task_input ==
            abstract_inputs_loop(edges, [args |-> << >>, kwargs |-> << >>])
        sorted_args == sorted_by_index(abstract_task_input.args)
    IN  [args |-> [k \in 1 .. Len(sorted_args) |-> sorted_args[k][1]],
         kwargs |-> abstract_task_input.kwargs]

\* datetime.now(timezone.utc): the clock may have advanced since the last reading.
NowValues == {t \in {clock, clock + 1} : t <= caps.clock}
LaterValues(t) == {u \in {t, t + 1} : u <= caps.clock}

\* ----------------------------------------------------------------- store
NewNode == [status |-> NEW_OBJECT, start_time |-> NoTime, end_time |-> NoTime,
            output |-> None]
NewMeta == [status |-> NEW_OBJECT, start_time |-> NoTime, end_time |-> NoTime,
            error |-> NoError, result |-> None, completed_electron_num |-> 0]
NoPending == [start_time |-> NoTime, end_time |-> NoTime, status |-> None,
              error |-> NoError, result |-> None]

set_node_value(g, node_id, key, val) == [g EXCEPT ![node_id][key] = val]

\* Result.commit: writes the pending fields that are set.
commit(m, p) ==
    LET m1 == IF p.start_time # NoTime THEN [m EXCEPT !.start_time = p.start_time] ELSE m
        m2 == IF p.end_time # NoTime THEN [m1 EXCEPT !.end_time = p.end_time] ELSE m1
        m3 == IF p.status # None THEN [m2 EXCEPT !.status = p.status] ELSE m2
        m4 == IF p.error # NoError THEN [m3 EXCEPT !.error = p.error] ELSE m3
        m5 == IF p.result # None THEN [m4 EXCEPT !.result = p.result] ELSE m4
    IN  m5

\* A commit that keeps the fields it has written.
commit_keeping(p) == p

\* Result.commit: every field it has written is set to None.
commit_pending(p) ==
    LET p1 == IF p.start_time # NoTime THEN [p EXCEPT !.start_time = NoTime] ELSE p
        p2 == IF p1.end_time # NoTime THEN [p1 EXCEPT !.end_time = NoTime] ELSE p1
        p3 == IF p2.status # None THEN [p2 EXCEPT !.status = None] ELSE p2
        p4 == IF p3.error # NoError THEN [p3 EXCEPT !.error = NoError] ELSE p3
        p5 == IF p4.result # None THEN [p4 EXCEPT !.result = None] ELSE p4
    IN  p5

\* Result._update_dispatch: writes the fields that are passed.
_update_dispatch(m, start_time, end_time, status, error, result) ==
    LET m1 == IF start_time # NoTime THEN [m EXCEPT !.start_time = start_time] ELSE m
        m2 == IF end_time # NoTime THEN [m1 EXCEPT !.end_time = end_time] ELSE m1
        m3 == IF status # None THEN [m2 EXCEPT !.status = status] ELSE m2
        m4 == IF error # NoError THEN [m3 EXCEPT !.error = error] ELSE m3
        m5 == IF result # None THEN [m4 EXCEPT !.result = result] ELSE m4
    IN  m5

IsParameterUpdate(nm, end_time) ==
    startswith(nm, parameter_prefix) /\ end_time # NoTime

\* The test of Result._update_node for the postprocessing node.
IsPostprocessUpdate(nm, end_time) ==
    startswith(nm, postprocess_prefix) /\ end_time # NoTime

\* get_value("completed_electron_num")
get_completed_electron_num(m) == m.completed_electron_num

\* Result._update_node after its read of the counter into completed_num:
\* returns the node records and the dispatch record.
_update_node_from(g, m, node_id, start_time, end_time, status, output, num) ==
    LET nm == name[node_id]
        g1 == IF start_time # NoTime
              THEN set_node_value(g, node_id, "start_time", start_time) ELSE g
        g2 == IF end_time # NoTime
              THEN set_node_value(g1, node_id, "end_time", end_time) ELSE g1
        g3 == IF status # None
              THEN set_node_value(g2, node_id, "status", status) ELSE g2
        mc == IF status # None /\ status = COMPLETED
              THEN [m EXCEPT !.completed_electron_num = num + 1] ELSE m
        g4 == IF output # None
              THEN set_node_value(g3, node_id, "output", output) ELSE g3
    IN  IF IsPostprocessUpdate(nm, end_time)
        THEN LET copied == [mc EXCEPT !.result = g4[node_id].output]
                 set == [pending EXCEPT !.status = status, !.end_time = end_time]
             IN  [tg |-> g4, meta |-> commit(copied, set), pending |-> commit_pending(set)]
        ELSE [tg |-> g4, meta |-> mc, pending |-> pending]

\* Result._update_node executing alone: the counter is read from the record
\* it writes.
_update_node(g, m, node_id, start_time, end_time, status, output) ==
    _update_node_from(g, m, node_id, start_time, end_time, status, output,
                      get_completed_electron_num(m))

\* Result._get_incomplete_nodes: (id, name) of the failed and of the cancelled nodes.
NodesWithStatus(g, status) ==
    LET ids == SortedSeq({i \in Nodes : g[i].status = status})
    IN  [k \in 1 .. Len(ids) |-> <<ids[k], name[ids[k]]>>]

_get_incomplete_nodes(g) ==
    [failed |-> NodesWithStatus(g, FAILED),
     cancelled |-> NodesWithStatus(g, CANCELLED)]

\* `_status_queues[dispatch_id]` raises KeyError for a dispatch without queue.
raises_KeyError(queues, d) == d \notin DOMAIN queues

\* A notify_node_status that puts the entry on a new queue when there is none.
notify_registering(queues, d, node_id, status, detail) ==
    IF raises_KeyError(queues, d)
    THEN (d :> << <<node_id, status, detail>> >>) @@ queues
    ELSE [queues EXCEPT ![d] = Append(@, <<node_id, status, detail>>)]

\* notify_node_status: put (node_id, status, detail) on the dispatch's queue;
\* the queues it leaves.
notify_node_status(queues, d, node_id, status, detail) ==
    IF raises_KeyError(queues, d) THEN queues
    ELSE [queues EXCEPT ![d] = Append(@, <<node_id, status, detail>>)]

\* ------------------------------------------------------- readiness tracker
\* The in-degrees with the wait_for edges left out.
value_in_degree(nodes, ls) ==
    LET order == SortedSeq(nodes)
    IN  [k \in 1 .. Len(order) |->
            <<order[k], Cardinality({e \in ls \ wait_for : e[2] = order[k]})>>]

\* The in-degrees with the edges from one parent counted once.
distinct_in_degree(nodes, ls) ==
    LET order == SortedSeq(nodes)
    IN  [k \in 1 .. Len(order) |->
            <<order[k],
              Cardinality({e \in ls : e[2] = order[k]}) +
              (IF order[k] = NumNodes - 1
               THEN Cardinality({incoming[i].source : i \in 1 .. Len(incoming)})
               ELSE 0)>>]

\* g.in_degree() of the graph read from the node-link data: (node_id, d) for
\* every node, in node order; d counts every edge into the node.
g_in_degree(nodes, ls) ==
    LET order == SortedSeq(nodes)
    IN  [k \in 1 .. Len(order) |->
            <<order[k],
              Cardinality({e \in ls : e[2] = order[k]}) +
              (IF order[k] = NumNodes - 1 THEN Len(incoming) ELSE 0)>>]

HasAtMostOneParent(d) == d <= 1

\* The test `d == 0` of _get_initial_tasks_and_deps.
HasNoParent(d) == d = 0

\* The loop of _get_initial_tasks_and_deps over g.in_degree().
RECURSIVE initial_tasks_loop(_, _)
initial_tasks_loop(degrees, acc) ==
    IF degrees = << >> THEN acc
    ELSE LET node_id == Head(degrees)[1]
             d == Head(degrees)[2]
         IN  initial_tasks_loop(Tail(degrees),
                 [num_tasks |-> acc.num_tasks + 1,
                  ready_nodes |-> IF HasNoParent(d) THEN Append(acc.ready_nodes, node_id)
                                  ELSE acc.ready_nodes,
                  pending_parents |-> (node_id :> d) @@ acc.pending_parents])

initial_tasks_and_deps(nodes, ls) ==
    initial_tasks_loop(g_in_degree(nodes, ls),
        [num_tasks |-> 0, ready_nodes |-> << >>, pending_parents |-> << >>])

\* _get_initial_tasks_and_deps for the dispatch's graph.
_get_initial_tasks_and_deps == initial_tasks_and_deps(Nodes, links)

IsReadyOffByOne(count) == count < 2

IsReady(count) == count < 1

\* _handle_completed_node: the loop over the successors of the completed node.
RECURSIVE _handle_completed_loop(_, _, _)
_handle_completed_loop(children, pp, ready) ==
    IF children = << >> THEN [pending_parents |-> pp, ready_nodes |-> ready]
    ELSE LET child == Head(children)
             pp2 == [pp EXCEPT ![child] = @ - 1]
         IN  _handle_completed_loop(Tail(children), pp2,
                 IF IsReady(pp2[child]) THEN Append(ready, child) ELSE ready)

\* A handler that leaves the counters of the successors as they are.
_handle_completed_skipping(node_id, pp) ==
    _handle_completed_loop(<< >>, pp, << >>)

_handle_completed_node(node_id, pp) ==
    _handle_completed_loop(get_node_successors(node_id), pp, << >>)

\* A handler that counts a failed parent as a completed one.
_handle_failed_as_completed(node_id, pp) ==
    _handle_completed_node(node_id, pp).pending_parents

\* _handle_failed_node only logs: the counters stay as they are.
_handle_failed_node(node_id, pp) == pp

\* _handle_cancelled_node only logs too.
_handle_cancelled_node(node_id, pp) == pp

\* ------------------------------------------------------------------ Init
\* Parameter nodes are literals, so they have no parents; the postprocess node,
\* when the lattice has one, is its last node.
WellFormed(ls, nm) ==
    /\ \A n \in Nodes : startswith(nm[n], parameter_prefix) =>
                            ~ \E e \in ls : e[2] = n
    /\ \A n \in Nodes : startswith(nm[n], postprocess_prefix) => n = NumNodes - 1

\* A behaviour draws on at most MaxOptional of the optional behaviours of the
\* environment: a clock that advances between readings, RUNNING reports,
\* DISPATCHING reports, a redispatch of a dispatch that did not complete,
\* calls of the data service that raise (at most MaxFaults in one call of
\* run_workflow), electrons whose executor cannot be resolved, and wait_for
\* edges.
Optional == {"clock", "running", "dispatching", "rerun", "fault", "badexec",
             "wait_for", "threads"}
ScenarioOf(on) ==
     [clock |-> IF "clock" \in on THEN MaxClock ELSE 0,
      running |-> IF "running" \in on THEN MaxRunningEvents ELSE 0,
      dispatching |-> IF "dispatching" \in on THEN MaxDispatchingEvents ELSE 0,
      rerun |-> "rerun" \in on,
      fault |-> IF "fault" \in on THEN MaxFaults ELSE 0,
      badexec |-> IF "badexec" \in on THEN MaxBadExecutors ELSE 0,
      wait_for |-> IF "wait_for" \in on THEN MaxWaitFor ELSE 0,
      threads |-> IF "threads" \in on THEN MaxThreads ELSE 0]
Scenarios ==
    {ScenarioOf(on) :
        on \in {o \in SUBSET Optional :
                   Cardinality(o) = IF MaxOptional < Cardinality(Optional)
                                    THEN MaxOptional ELSE Cardinality(Optional)}}

\* The state of the dispatcher and of the store before the first call.
InitState ==
    /\ tg = [n \in Nodes |-> NewNode]
    /\ meta = NewMeta
    /\ pending = NoPending
    /\ pc = "idle"
    /\ ready_nodes = << >>
    /\ unresolved_tasks = 0
    /\ tasks_left = 0
    /\ pending_parents = [n \in Nodes |-> 0]
    /\ status_queues = [d \in {other_dispatch_id} |-> << >>]
    /\ dispatch_status = None
    /\ clock = 0
    /\ runner_task = [n \in Nodes |-> "none"]
    /\ running_events = 0
    /\ dispatching_events = 0
    /\ sub_tasks = [d \in {sub_id(n) : n \in Nodes} |-> 0]
    /\ sub_pc = [d \in {sub_id(n) : n \in Nodes} |-> "none"]
    /\ sub_again = [d \in {sub_id(n) : n \in Nodes} |-> "none"]
    /\ detached = [d \in {sub_id(n) : n \in Nodes} |-> << >>]
    /\ abs_task_input = [n \in Nodes |-> << >>]
    /\ completed_num = [n \in Nodes |-> 0]
    /\ finalize_calls = 0
    /\ persist_calls = 0
    /\ runs = 0
    /\ short_circuited = FALSE
    /\ raised = {}
    /\ submit_count = [n \in Nodes |-> 0]
    /\ ready_count = [n \in Nodes |-> 0]
    /\ reported = [n \in Nodes |-> None]
    /\ consumed = [n \in Nodes |-> 0]
    /\ dispatching_consumed = {}
    /\ notify_errors = 0

Init ==
    /\ links \in SUBSET AllLinks
    /\ caps \in Scenarios
    /\ wait_for \in SUBSET links
    /\ Cardinality(wait_for) = caps.wait_for
    /\ incoming = << >>
    /\ name \in [Nodes -> NodeNames]
    /\ WellFormed(links, name)
    /\ value = [n \in Nodes |->
                   IF startswith(name[n], parameter_prefix) THEN LiteralOf(n) ELSE None]
    /\ executor \in [Nodes -> ExecutorValues]
    /\ \A n \in Nodes :
          \/ executor[n] = (IF n % 2 = 0 THEN LocalName ELSE LocalInstance)
          \/ /\ get_executor(executor[n]).raises # None
             /\ ~ startswith(name[n], parameter_prefix)
    /\ Cardinality({n \in Nodes : get_executor(executor[n]).raises # None}) =
          (IF caps.badexec < NumNodes THEN caps.badexec ELSE NumNodes)
    /\ InitState

\* ------------------------------------------------- the data service calls
\* datasvc.update_node_result: persists the node result through
\* Result._update_node and reports the node's status on the dispatch's queue;
\* a KeyError of notify_node_status goes to the caller.
update_node_result(node_id, start_time, end_time, status, output, detail) ==
    LET r == _update_node(tg, meta, node_id, start_time, end_time, status, output)
    IN  /\ tg' = r.tg
        /\ meta' = r.meta
        /\ pending' = r.pending
        /\ status_queues' =
               notify_node_status(status_queues, dispatch_id, node_id, status, detail)
        /\ notify_errors' = IF raises_KeyError(status_queues, dispatch_id)
                            THEN notify_errors + 1 ELSE notify_errors

\* ------------------------------------------------------------ error text
\* A text is the sequence of its pieces.
RECURSIVE join(_, _)
join(texts, sep) ==
    IF texts = << >> THEN << >>
    ELSE IF Len(texts) = 1 THEN texts[1]
    ELSE texts[1] \o <<sep>> \o join(Tail(texts), sep)

FormatNameOnly(x) == x[2]

\* f"{x[0]}: {x[1]}"
format_node(x) == <<ToString(x[1]), ": ">> \o x[2]

ErrorHeader == <<"The following tasks failed:", "\n">>

ListsCancelled(failed, cancelled) == cancelled

\* The nodes _finalize_dispatch lists in the error message.
failed_nodes_of(failed, cancelled) == failed

error_msg_of(failed, cancelled) ==
    LET failed_nodes == failed_nodes_of(failed, cancelled)
    IN  ErrorHeader \o
        join([k \in 1 .. Len(failed_nodes) |-> format_node(failed_nodes[k])], "\n")

AlwaysFailed(failed, cancelled) == FAILED

final_status_of(failed, cancelled) ==
    IF failed # << >> THEN FAILED ELSE CANCELLED

\* The status _finalize_dispatch computes itself; None when it writes nothing.
computed_status(g) ==
    LET incomplete_tasks == _get_incomplete_nodes(g)
    IN  IF incomplete_tasks.failed # << >> \/ incomplete_tasks.cancelled # << >>
        THEN final_status_of(incomplete_tasks.failed, incomplete_tasks.cancelled)
        ELSE None

ComputedStatus(stored, computed) == computed

\* What _finalize_dispatch returns: result_info["status"], read after its write.
returned_status(stored, computed) == stored

\* A finalizer that stamps the end_time of every dispatch.
_finalize_stamping(g, m, ts) ==
    LET incomplete_tasks == _get_incomplete_nodes(g)
        failed == incomplete_tasks.failed
        cancelled == incomplete_tasks.cancelled
    IN  IF failed # << >> \/ cancelled # << >>
        THEN _update_dispatch(m, NoTime, ts, final_status_of(failed, cancelled),
                              error_msg_of(failed, cancelled), None)
        ELSE _update_dispatch(m, NoTime, ts, None, NoError, None)

\* _finalize_dispatch: the dispatch record it leaves.
_finalize_dispatch(g, m, ts) ==
    LET incomplete_tasks == _get_incomplete_nodes(g)
        failed == incomplete_tasks.failed
        cancelled == incomplete_tasks.cancelled
    IN  IF failed # << >> \/ cancelled # << >>
        THEN _update_dispatch(m, NoTime, ts, final_status_of(failed, cancelled),
                              error_msg_of(failed, cancelled), None)
        ELSE m

\* --------------------------------------------------------------- actions
NeverCompleted(status) == FALSE

\* run_workflow's test of the stored status.
AlreadyCompleted(status) == status = COMPLETED

\* run_workflow on a dispatch whose stored status is COMPLETED.
RunWorkflowCompleted ==
    /\ pc = "idle"
    /\ runs < MaxRuns
    /\ AlreadyCompleted(meta.status)
    /\ finalize_calls' = finalize_calls + 1
    /\ dispatch_status' = COMPLETED
    /\ runs' = runs + 1
    /\ short_circuited' = TRUE
    /\ raised' = {}
    /\ UNCHANGED <<graphVars, storeVars, envVars, persist_calls>>
    /\ UNCHANGED <<pc, ready_nodes, unresolved_tasks, tasks_left, pending_parents,
                   status_queues>>
    /\ UNCHANGED <<submit_count, ready_count, reported, consumed, dispatching_consumed,
                   notify_errors>>

\* run_workflow otherwise: the queue is registered, and _run_planned_workflow
\* persists RUNNING and computes the initial tasks.
RunWorkflowStart ==
    /\ pc = "idle"
    /\ runs < MaxRuns
    /\ runs > 0 => caps.rerun
    /\ ~ AlreadyCompleted(meta.status)
    /\ \E t \in NowValues :
          /\ clock' = t
          /\ meta' = _update_dispatch(meta, t, NoTime, RUNNING, NoError, None)
    /\ status_queues' = (dispatch_id :> << >>) @@ status_queues
    /\ LET init == _get_initial_tasks_and_deps
       IN  /\ tasks_left' = init.num_tasks
           /\ ready_nodes' = init.ready_nodes
           /\ pending_parents' = init.pending_parents
           /\ pc' = IF init.ready_nodes = << >> THEN "wait" ELSE "submit"
    /\ unresolved_tasks' = 0
    /\ runs' = runs + 1
    /\ short_circuited' = FALSE
    /\ raised' = {}
    /\ submit_count' = [n \in Nodes |-> 0]
    /\ ready_count' = [n \in Nodes |-> 0]
    /\ reported' = [n \in Nodes |-> None]
    /\ consumed' = [n \in Nodes |-> 0]
    /\ dispatching_consumed' = {}
    /\ UNCHANGED <<graphVars, tg, pending, dispatch_status, svcVars, notify_errors>>
    /\ UNCHANGED <<runner_task, running_events, dispatching_events, sub_tasks, sub_pc, sub_again, detached,
                   abs_task_input, completed_num>>

\* The loop's bookkeeping around one _submit_task call of a for loop.
SubmitNext(node_id) ==
    /\ pc = "submit"
    /\ ready_nodes # << >>
    /\ node_id = Head(ready_nodes)
    /\ unresolved_tasks' = unresolved_tasks + 1
    /\ ready_nodes' = Tail(ready_nodes)
    /\ pc' = IF Tail(ready_nodes) = << >> THEN "wait" ELSE "submit"
    /\ submit_count' = [submit_count EXCEPT ![node_id] = @ + 1]

\* _submit_task for a parameter node.
SubmitParameter ==
    \E node_id \in Nodes :
       /\ SubmitNext(node_id)
       /\ startswith(name[node_id], parameter_prefix)
       /\ \E start_time \in NowValues : \E end_time \in LaterValues(start_time) :
             /\ clock' = end_time
             /\ update_node_result(node_id, start_time, end_time, COMPLETED,
                                   value[node_id], NoDetail)
       /\ reported' = [reported EXCEPT ![node_id] = COMPLETED]
       /\ UNCHANGED <<graphVars, tasks_left, pending_parents, dispatch_status, svcVars>>
       /\ UNCHANGED <<runner_task, running_events, dispatching_events, sub_tasks, sub_pc, sub_again, detached,
                   abs_task_input, completed_num>>
       /\ UNCHANGED <<runs, short_circuited, raised, ready_count, consumed, dispatching_consumed>>

\* `await coro`: the coroutine of the runner has run to its end when the
\* submission returns.
await_coro(tasks, node_id) == [tasks EXCEPT ![node_id] = "done"]

\* asyncio.create_task(coro): the runner task of the node exists and has not
\* run yet when the submission returns.
asyncio_create_task(tasks, node_id) == [tasks EXCEPT ![node_id] = "created"]

\* _submit_task for any other node: a runner task is created.
SubmitTask ==
    \E node_id \in Nodes :
       /\ SubmitNext(node_id)
       /\ ~ startswith(name[node_id], parameter_prefix)
       /\ abs_task_input' =
              [abs_task_input EXCEPT
                  ![node_id] = <<_get_abstract_task_inputs(get_incoming_edges(node_id))>>]
       /\ runner_task' = asyncio_create_task(runner_task, node_id)
       /\ UNCHANGED <<graphVars, storeVars, tasks_left, pending_parents,
                      status_queues, dispatch_status, svcVars>>
       /\ UNCHANGED <<clock, running_events, dispatching_events, sub_tasks, sub_pc, sub_again, detached, completed_num>>
       /\ UNCHANGED <<runs, short_circuited, raised, ready_count, reported, consumed,
                      dispatching_consumed, notify_errors>>

\* A loop that stops while one task is still unresolved.
loop_done_early(n) == ~ (n > 1)

\* The condition of "while unresolved_tasks > 0" is false.
loop_done(n) == ~ (n > 0)

\* The loop takes the next entry of its queue.
Get(node_id, node_status, detail) ==
    /\ pc = "wait"
    /\ ~ loop_done(unresolved_tasks)
    /\ dispatch_id \in DOMAIN status_queues
    /\ status_queues[dispatch_id] # << >>
    /\ <<node_id, node_status, detail>> = Head(status_queues[dispatch_id])
    /\ status_queues' = [status_queues EXCEPT ![dispatch_id] = Tail(@)]

EventValues ==
    IF dispatch_id \in DOMAIN status_queues /\ status_queues[dispatch_id] # << >>
    THEN {Head(status_queues[dispatch_id])} ELSE {}

UnresolvedCounted(n) == n - 1

\* A RUNNING entry is skipped by "continue" before the line that takes one from
\* unresolved_tasks.
UnresolvedAfterRunning(n) == n

ConsumeRunning ==
    \E ev \in EventValues :
       /\ Get(ev[1], ev[2], ev[3])
       /\ ev[2] = RUNNING
       /\ unresolved_tasks' = UnresolvedAfterRunning(unresolved_tasks)
       /\ UNCHANGED <<graphVars, storeVars, envVars, svcVars, histVars>>
       /\ UNCHANGED <<pc, ready_nodes, tasks_left, pending_parents, dispatch_status>>

\* run_dispatch(sub_dispatch_id): a task running run_workflow for the sub-dispatch.
run_dispatch(tasks, sub_dispatch_id) ==
    [tasks EXCEPT ![sub_dispatch_id] = @ + 1]

\* A run_dispatch that runs the sub-dispatch to its end before it returns.
run_to_completion(pcs, sub_dispatch_id) ==
    [pcs EXCEPT ![sub_dispatch_id] = "done"]

\* asyncio.create_task(run_workflow(sub_dispatch_id)): the task exists and has
\* not run yet.
create_task(pcs, sub_dispatch_id) ==
    [pcs EXCEPT ![sub_dispatch_id] = "created"]

UnresolvedDecremented(n) == n - 1

\* A DISPATCHING entry leaves unresolved_tasks as it is.
UnresolvedAfterDispatching(n) == n

ConsumeDispatching ==
    \E ev \in EventValues :
       /\ Get(ev[1], ev[2], ev[3])
       /\ ev[2] = DISPATCHING
       /\ sub_tasks' = run_dispatch(sub_tasks, dict_get(ev[3], "sub_dispatch_id"))
       /\ sub_pc' = create_task(sub_pc, dict_get(ev[3], "sub_dispatch_id"))
       /\ unresolved_tasks' = UnresolvedAfterDispatching(unresolved_tasks)
       /\ dispatching_consumed' = dispatching_consumed \cup {ev[1]}
       /\ UNCHANGED <<graphVars, storeVars, svcVars>>
       /\ UNCHANGED <<clock, runner_task, running_events, dispatching_events,
                      sub_again, detached, abs_task_input, completed_num>>
       /\ UNCHANGED <<pc, ready_nodes, tasks_left, pending_parents, dispatch_status>>
       /\ UNCHANGED <<runs, short_circuited, raised, submit_count, ready_count, reported,
                      consumed, notify_errors>>

UnresolvedKept(n) == n

\* A terminal entry takes one from unresolved_tasks.
UnresolvedAfterTerminal(n) == n - 1

TasksLeftKept(n) == n

\* A COMPLETED entry takes one from tasks_left.
TasksLeftAfterCompleted(n) == n - 1

ConsumeCompleted ==
    \E ev \in EventValues :
       /\ Get(ev[1], ev[2], ev[3])
       /\ ev[2] = COMPLETED
       /\ unresolved_tasks' = UnresolvedAfterTerminal(unresolved_tasks)
       /\ tasks_left' = TasksLeftAfterCompleted(tasks_left)
       /\ LET r == _handle_completed_node(ev[1], pending_parents)
          IN  /\ pending_parents' = r.pending_parents
              /\ ready_nodes' = r.ready_nodes
              /\ pc' = IF r.ready_nodes = << >> THEN "wait" ELSE "submit"
              /\ ready_count' =
                    [n \in Nodes |->
                        ready_count[n] +
                        Cardinality({k \in 1 .. Len(r.ready_nodes) : r.ready_nodes[k] = n})]
       /\ consumed' = [consumed EXCEPT ![ev[1]] = @ + 1]
       /\ UNCHANGED <<graphVars, storeVars, envVars, svcVars, dispatch_status>>
       /\ UNCHANGED <<runs, short_circuited, raised, submit_count, reported,
                      dispatching_consumed, notify_errors>>

\* _handle_failed_node and _handle_cancelled_node only log.
ConsumeIncomplete(status) ==
    \E ev \in EventValues :
       /\ Get(ev[1], ev[2], ev[3])
       /\ ev[2] = status
       /\ unresolved_tasks' = UnresolvedAfterTerminal(unresolved_tasks)
       /\ pending_parents' = (IF status = FAILED
                              THEN _handle_failed_node(ev[1], pending_parents)
                              ELSE _handle_cancelled_node(ev[1], pending_parents))
       /\ consumed' = [consumed EXCEPT ![ev[1]] = @ + 1]
       /\ UNCHANGED <<graphVars, storeVars, envVars, svcVars>>
       /\ UNCHANGED <<pc, ready_nodes, tasks_left, dispatch_status>>
       /\ UNCHANGED <<runs, short_circuited, raised, submit_count, ready_count, reported,
                      dispatching_consumed, notify_errors>>

ConsumeFailed == ConsumeIncomplete(FAILED)

ConsumeCancelled == ConsumeIncomplete(CANCELLED)

\* The loop ends: _finalize_dispatch, then the cleanup block of run_workflow.
Finalize ==
    /\ pc = "wait"
    /\ loop_done(unresolved_tasks)
    /\ \E ts \in NowValues :
          /\ meta' = _finalize_dispatch(tg, meta, ts)
          /\ clock' = IF meta' = meta THEN clock ELSE ts
    /\ dispatch_status' = returned_status(meta'.status, computed_status(tg))
    /\ persist_calls' = persist_calls + 1
    /\ finalize_calls' = finalize_calls + 1
    /\ status_queues' = [d \in DOMAIN status_queues \ {dispatch_id} |-> status_queues[d]]
    /\ pc' = "idle"
    /\ UNCHANGED <<graphVars, tg, pending, histVars>>
    /\ UNCHANGED <<ready_nodes, unresolved_tasks, tasks_left, pending_parents>>
    /\ UNCHANGED <<runner_task, running_events, dispatching_events, sub_tasks, sub_pc, sub_again, detached,
                   abs_task_input, completed_num>>

\* "".join(traceback.TracebackException.from_exception(ex).format())
Traceback == <<"Traceback (most recent call last):", "\n", "Exception">>

\* get_dispatch_attributes raises in run_workflow, before the try statement:
\* the exception leaves run_workflow.
RunWorkflowReadRaises ==
    /\ pc = "idle"
    /\ runs < MaxRuns
    /\ runs > 0 => caps.rerun
    /\ caps.fault >= 1
    /\ runs' = runs + 1
    /\ short_circuited' = FALSE
    /\ raised' = {"read"}
    /\ dispatch_status' = None
    /\ UNCHANGED <<graphVars, storeVars, envVars, svcVars>>
    /\ UNCHANGED <<pc, ready_nodes, unresolved_tasks, tasks_left, pending_parents,
                   status_queues>>
    /\ UNCHANGED <<submit_count, ready_count, reported, consumed, dispatching_consumed,
                   notify_errors>>

\* The except clause and the finally clause of run_workflow, entered with the
\* dispatch record m and the queues after `used` calls have raised: the handler's
\* update_dispatch_result and the cleanup's persist_result may raise too.
ExceptAndCleanup(m, queues, used) ==
    \E handler_raises \in {FALSE} \cup {r \in {TRUE} : caps.fault >= used + 1} :
    \E persist_raises \in
           {FALSE} \cup {r \in {TRUE} :
                            caps.fault >= used + 1 + (IF handler_raises THEN 1 ELSE 0)} :
    \E t \in NowValues :
       /\ clock' = t
       /\ meta' = IF handler_raises THEN m
                  ELSE _update_dispatch(m, NoTime, t, FAILED, Traceback, None)
       /\ dispatch_status' = IF handler_raises \/ persist_raises THEN None ELSE FAILED
       /\ persist_calls' = persist_calls + 1
       /\ finalize_calls' = IF persist_raises THEN finalize_calls ELSE finalize_calls + 1
       /\ status_queues' =
              IF persist_raises THEN queues
              ELSE [d \in DOMAIN queues \ {dispatch_id} |-> queues[d]]
       /\ raised' = {"try"} \cup {x \in {"handler"} : handler_raises}
                            \cup {x \in {"persist"} : persist_raises}
       /\ pc' = "idle"

\* A call of the data service raises inside the loop: in _submit_task, in
\* _handle_completed_node for the COMPLETED entry just taken, or in
\* _finalize_dispatch.
RunWorkflowExcept ==
    /\ caps.fault >= 1
    /\ \/ pc = "submit"
       \/ pc = "wait" /\ unresolved_tasks = 0
       \/ pc = "wait" /\ unresolved_tasks > 0 /\ \E ev \in EventValues : ev[2] = COMPLETED
    /\ ExceptAndCleanup(meta, status_queues, 1)
    /\ UNCHANGED <<graphVars, tg, pending>>
    /\ UNCHANGED <<ready_nodes, unresolved_tasks, tasks_left, pending_parents>>
    /\ UNCHANGED <<runner_task, running_events, dispatching_events, sub_tasks, sub_pc, sub_again, detached,
                   abs_task_input, completed_num>>
    /\ UNCHANGED <<runs, short_circuited, submit_count, ready_count, reported, consumed,
                   dispatching_consumed, notify_errors>>

\* update_dispatch_result raises when _run_planned_workflow persists RUNNING.
RunWorkflowStartRaises ==
    /\ pc = "idle"
    /\ runs < MaxRuns
    /\ runs > 0 => caps.rerun
    /\ ~ AlreadyCompleted(meta.status)
    /\ caps.fault >= 1
    /\ ExceptAndCleanup(meta, (dispatch_id :> << >>) @@ status_queues, 1)
    /\ runs' = runs + 1
    /\ short_circuited' = FALSE
    /\ submit_count' = [n \in Nodes |-> 0]
    /\ ready_count' = [n \in Nodes |-> 0]
    /\ reported' = [n \in Nodes |-> None]
    /\ consumed' = [n \in Nodes |-> 0]
    /\ dispatching_consumed' = {}
    /\ UNCHANGED <<graphVars, tg, pending, notify_errors>>
    /\ UNCHANGED <<ready_nodes, unresolved_tasks, tasks_left, pending_parents>>
    /\ UNCHANGED <<runner_task, running_events, dispatching_events, sub_tasks, sub_pc, sub_again, detached,
                   abs_task_input, completed_num>>

\* The loop ends and _finalize_dispatch returns, but persist_result raises in
\* the finally clause: finalize_dispatch and the pop of the queue are skipped.
RunWorkflowPersistRaises ==
    /\ pc = "wait"
    /\ loop_done(unresolved_tasks)
    /\ caps.fault >= 1
    /\ \E ts \in NowValues :
          /\ meta' = _finalize_dispatch(tg, meta, ts)
          /\ clock' = IF meta' = meta THEN clock ELSE ts
    /\ dispatch_status' = None
    /\ persist_calls' = persist_calls + 1
    /\ raised' = {"persist"}
    /\ pc' = "idle"
    /\ UNCHANGED <<graphVars, tg, pending, finalize_calls, status_queues>>
    /\ UNCHANGED <<ready_nodes, unresolved_tasks, tasks_left, pending_parents>>
    /\ UNCHANGED <<runner_task, running_events, dispatching_events, sub_tasks, sub_pc, sub_again, detached,
                   abs_task_input, completed_num>>
    /\ UNCHANGED <<runs, short_circuited, submit_count, ready_count, reported, consumed,
                   dispatching_consumed, notify_errors>>

\* ------------------------------------------------------------ the runner
\* A runner task reports RUNNING.
RunnerRunning ==
    \E node_id \in Nodes :
       /\ runner_task[node_id] \in {"created", "dispatching"}
       /\ get_executor(executor[node_id]).raises = None
       /\ running_events < caps.running
       /\ running_events' = running_events + 1
       /\ \E t \in NowValues :
             /\ clock' = t
             /\ update_node_result(node_id, t, NoTime, RUNNING, None, NoDetail)
       /\ UNCHANGED <<graphVars, svcVars>>
       /\ UNCHANGED <<runs, short_circuited, raised, submit_count, ready_count, reported,
                      consumed, dispatching_consumed>>
       /\ UNCHANGED <<pc, ready_nodes, unresolved_tasks, tasks_left, pending_parents,
                      dispatch_status>>
       /\ UNCHANGED <<runner_task, dispatching_events, sub_tasks, sub_pc, sub_again, detached, abs_task_input, completed_num>>

\* A runner task of a sublattice node reports DISPATCHING with the sub-dispatch id.
RunnerDispatching ==
    \E node_id \in Nodes :
       /\ runner_task[node_id] = "created"
       /\ get_executor(executor[node_id]).raises = None
       /\ dispatching_events < caps.dispatching
       /\ dispatching_events' = dispatching_events + 1
       /\ runner_task' = [runner_task EXCEPT ![node_id] = "dispatching"]
       /\ update_node_result(node_id, NoTime, NoTime, DISPATCHING, None, SubDetail(node_id))
       /\ UNCHANGED <<graphVars, svcVars>>
       /\ UNCHANGED <<runs, short_circuited, raised, submit_count, ready_count, reported,
                      consumed, dispatching_consumed>>
       /\ UNCHANGED <<pc, ready_nodes, unresolved_tasks, tasks_left, pending_parents,
                      dispatch_status>>
       /\ UNCHANGED <<clock, running_events, sub_tasks, sub_pc, sub_again, detached, abs_task_input, completed_num>>

\* A runner task reports its terminal status; the task of an electron whose
\* executor it cannot resolve reports FAILED.
RunnerFinish(node_id) ==
    \E status \in Terminal :
       /\ runner_task[node_id] \in {"created", "dispatching"}
       /\ get_executor(executor[node_id]).raises # None => status = FAILED
       /\ runner_task' = [runner_task EXCEPT ![node_id] = "done"]
       /\ \E t \in NowValues :
             /\ clock' = t
             /\ update_node_result(node_id, NoTime, t, status,
                                   IF status = COMPLETED THEN "out" ELSE None, NoDetail)
       /\ reported' = [reported EXCEPT ![node_id] = status]
       /\ UNCHANGED <<graphVars, svcVars>>
       /\ UNCHANGED <<pc, ready_nodes, unresolved_tasks, tasks_left, pending_parents,
                      dispatch_status>>
       /\ UNCHANGED <<running_events, dispatching_events, sub_tasks, sub_pc, sub_again, detached, abs_task_input, completed_num>>
       /\ UNCHANGED <<runs, short_circuited, raised, submit_count, ready_count, consumed,
                      dispatching_consumed>>

\* The _update_node call of a runner task that reports COMPLETED, executing
\* at the same time as others: it has read the counter.
UpdateNodeRead(node_id) ==
    /\ runner_task[node_id] \in {"created", "dispatching"}
    /\ get_executor(executor[node_id]).raises = None
    /\ Cardinality({n \in Nodes : runner_task[n] = "updating"}) < caps.threads
    /\ runner_task' = [runner_task EXCEPT ![node_id] = "updating"]
    /\ completed_num' = [completed_num EXCEPT ![node_id] = get_completed_electron_num(meta)]
    /\ UNCHANGED <<graphVars, storeVars, loopVars, svcVars, histVars>>
    /\ UNCHANGED <<clock, running_events, dispatching_events, sub_tasks, sub_pc, sub_again, detached, abs_task_input>>

\* That call writes the counter and the node, and the status is reported.
UpdateNodeWrite(node_id) ==
    /\ runner_task[node_id] = "updating"
    /\ runner_task' = [runner_task EXCEPT ![node_id] = "done"]
    /\ completed_num' = [completed_num EXCEPT ![node_id] = 0]
    /\ \E t \in NowValues :
          LET r == _update_node_from(tg, meta, node_id, NoTime, t, COMPLETED, "out",
                                     completed_num[node_id])
          IN  /\ clock' = t
              /\ tg' = r.tg
              /\ meta' = r.meta
              /\ pending' = r.pending
    /\ status_queues' =
           notify_node_status(status_queues, dispatch_id, node_id, COMPLETED, NoDetail)
    /\ notify_errors' = IF raises_KeyError(status_queues, dispatch_id)
                        THEN notify_errors + 1 ELSE notify_errors
    /\ reported' = [reported EXCEPT ![node_id] = COMPLETED]
    /\ UNCHANGED <<graphVars, svcVars>>
    /\ UNCHANGED <<pc, ready_nodes, unresolved_tasks, tasks_left, pending_parents,
                   dispatch_status>>
    /\ UNCHANGED <<running_events, dispatching_events, sub_tasks, sub_pc, sub_again, detached, abs_task_input>>
    /\ UNCHANGED <<runs, short_circuited, raised, submit_count, ready_count, consumed,
                   dispatching_consumed>>

\* The queue that the loop of the first task of sub-dispatch d waits on: the
\* one it registered, also after `_status_queues[d] = asyncio.Queue()` of a
\* second task has put another queue in its place.
own_queue(d) ==
    IF sub_again[d] = "wait" THEN detached[d]
    ELSE IF d \in DOMAIN status_queues THEN status_queues[d] ELSE << >>

\* run_workflow of a sub-dispatch registers the sub-dispatch's own queue and
\* submits its nodes.
SubRunWorkflowStart(d) ==
    /\ sub_pc[d] = "created"
    /\ sub_pc' = [sub_pc EXCEPT ![d] = "wait"]
    /\ status_queues' = (d :> << >>) @@ status_queues
    /\ UNCHANGED <<graphVars, storeVars, svcVars, histVars>>
    /\ UNCHANGED <<pc, ready_nodes, unresolved_tasks, tasks_left, pending_parents,
                   dispatch_status>>
    /\ UNCHANGED <<clock, runner_task, running_events, dispatching_events, sub_tasks,
                   sub_again, detached, abs_task_input, completed_num>>

\* The outcomes of the node of a sub-dispatch.
SubOutcomes == {COMPLETED}

\* A runner task of the sub-dispatch reports the terminal status of its node.
SubRunnerFinish(d) ==
    /\ sub_pc[d] = "wait"
    /\ sub_pc' = [sub_pc EXCEPT ![d] = "notified"]
    /\ \E status \in SubOutcomes :
          status_queues' = notify_node_status(status_queues, d, 0, status, NoDetail)
    /\ UNCHANGED <<graphVars, storeVars, svcVars, histVars>>
    /\ UNCHANGED <<pc, ready_nodes, unresolved_tasks, tasks_left, pending_parents,
                   dispatch_status>>
    /\ UNCHANGED <<clock, runner_task, running_events, dispatching_events, sub_tasks,
                   sub_again, detached, abs_task_input, completed_num>>

\* The loop of the sub-dispatch takes the entry, ends, and run_workflow removes
\* the sub-dispatch's queue.
SubRunWorkflowEnd(d) ==
    /\ sub_pc[d] = "notified"
    /\ own_queue(d) # << >>
    /\ sub_pc' = [sub_pc EXCEPT ![d] = "done"]
    /\ status_queues' = [e \in DOMAIN status_queues \ {d} |-> status_queues[e]]
    /\ UNCHANGED <<graphVars, storeVars, svcVars, histVars>>
    /\ UNCHANGED <<pc, ready_nodes, unresolved_tasks, tasks_left, pending_parents,
                   dispatch_status>>
    /\ UNCHANGED <<clock, runner_task, running_events, dispatching_events, sub_tasks,
                   sub_again, detached, abs_task_input, completed_num>>

\* run_dispatch is called again for a sub-dispatch whose loop is running:
\* run_workflow of the second task registers a new queue under the same id and
\* waits in _run_planned_workflow.
RunDispatchAgain(d) ==
    /\ caps.dispatching > 0
    /\ sub_pc[d] \in {"wait", "notified"}
    /\ sub_again[d] = "none"
    /\ sub_again' = [sub_again EXCEPT ![d] = "wait"]
    /\ detached' = [detached EXCEPT ![d] = status_queues[d]]
    /\ status_queues' = (d :> << >>) @@ status_queues
    /\ UNCHANGED <<graphVars, storeVars, svcVars, histVars>>
    /\ UNCHANGED <<pc, ready_nodes, unresolved_tasks, tasks_left, pending_parents,
                   dispatch_status>>
    /\ UNCHANGED <<clock, runner_task, running_events, dispatching_events, sub_tasks,
                   sub_pc, abs_task_input, completed_num>>

SubDispatchIds == {sub_id(n) : n \in Nodes}

Next ==
    \/ RunWorkflowCompleted
    \/ RunWorkflowStart
    \/ SubmitParameter
    \/ SubmitTask
    \/ ConsumeRunning
    \/ ConsumeDispatching
    \/ ConsumeCompleted
    \/ ConsumeFailed
    \/ ConsumeCancelled
    \/ Finalize
    \/ RunWorkflowReadRaises
    \/ RunWorkflowStartRaises
    \/ RunWorkflowExcept
    \/ RunWorkflowPersistRaises
    \/ RunnerRunning
    \/ RunnerDispatching
    \/ \E node_id \in Nodes : RunnerFinish(node_id)
    \/ \E node_id \in Nodes : UpdateNodeRead(node_id)
    \/ \E node_id \in Nodes : UpdateNodeWrite(node_id)
    \/ \E d \in SubDispatchIds : SubRunWorkflowStart(d)
    \/ \E d \in SubDispatchIds : SubRunnerFinish(d)
    \/ \E d \in SubDispatchIds : SubRunWorkflowEnd(d)
    \/ \E d \in SubDispatchIds : RunDispatchAgain(d)

Spec == Init /\ [][Next]_vars

\* _get_abstract_task_inputs on its own: any list of at most MaxEdges edges
\* from two parents into the last node, parallel edges included.
EdgeLists ==
    UNION {[1 .. len -> [source : 0 .. 1, attrs : EdgeAttrs]] : len \in 0 .. MaxEdges}

InputsInit ==
    /\ incoming \in EdgeLists
    /\ links = {}
    /\ wait_for = {}
    /\ caps = ScenarioOf({})
    /\ name = [n \in Nodes |-> TaskName]
    /\ value = [n \in Nodes |-> None]
    /\ executor = [n \in Nodes |-> LocalName]
    /\ InitState

GetAbstractTaskInputs ==
    /\ abs_task_input[NumNodes - 1] = << >>
    /\ abs_task_input' =
           [abs_task_input EXCEPT ![NumNodes - 1] = <<_get_abstract_task_inputs(incoming)>>]
    /\ UNCHANGED <<graphVars, storeVars, loopVars, svcVars, histVars>>
    /\ UNCHANGED <<clock, runner_task, running_events, dispatching_events, sub_tasks, sub_pc, sub_again, detached,
                   completed_num>>

InputsNext == GetAbstractTaskInputs

InputsSpec == InputsInit /\ [][InputsNext]_vars

\* The event loop over a graph with parallel edges: at most MaxEdges edges,
\* each a positional argument, from two parents into the last node.
MultiEdgeLists ==
    UNION {[1 .. len -> [source : 0 .. 1, attrs : {ArgEdge(i) : i \in 0 .. MaxArgIndex}]] :
             len \in 0 .. MaxEdges}

MultiEdgeInit ==
    /\ incoming \in MultiEdgeLists
    /\ links = {}
    /\ wait_for = {}
    /\ caps = ScenarioOf({})
    /\ name = [n \in Nodes |-> TaskName]
    /\ value = [n \in Nodes |-> None]
    /\ executor = [n \in Nodes |-> LocalName]
    /\ InitState

MultiEdgeNext ==
    \/ RunWorkflowStart
    \/ SubmitTask
    \/ ConsumeCompleted
    \/ ConsumeFailed
    \/ ConsumeCancelled
    \/ Finalize
    \/ \E node_id \in Nodes : RunnerFinish(node_id)

MultiEdgeSpec == MultiEdgeInit /\ [][MultiEdgeNext]_vars

\* The event loop is a task of the asyncio loop: it runs whenever it can take a
\* step.  Every runner task reports its terminal status.
LoopStep ==
    \/ SubmitParameter
    \/ SubmitTask
    \/ ConsumeRunning
    \/ ConsumeDispatching
    \/ ConsumeCompleted
    \/ ConsumeFailed
    \/ ConsumeCancelled
    \/ Finalize

FairSpec ==
    /\ Spec
    /\ WF_vars(LoopStep)
    /\ \A node_id \in Nodes : WF_vars(RunnerFinish(node_id))
    /\ \A node_id \in Nodes : WF_vars(UpdateNodeWrite(node_id))

\* ================================================================ claims
Submitted == {n \in Nodes : submit_count[n] > 0}

\* The last call of run_workflow ran the loop and has returned.
RunOver == pc = "idle" /\ runs > 0 /\ ~ short_circuited /\ raised = {}

RECURSIVE Ancestors(_)
Ancestors(n) == Parents(n) \cup UNION {Ancestors(p) : p \in Parents(n)}

\* Every parent of n, and inductively of its parents, reported COMPLETED.
RECURSIVE Eligible(_)
Eligible(n) == \A p \in Parents(n) : Eligible(p) /\ reported[p] = COMPLETED

\* C1: for every graph and every outcome of the nodes, a node is submitted only
\* when all its parents (inductively) reported COMPLETED, no submitted node has
\* a FAILED or CANCELLED ancestor, and when the run is over the submitted
\* nodes are exactly the nodes all of whose parents completed.
C1_SubmittedIffParentsCompleted ==
    /\ \A n \in Submitted : Eligible(n)
    /\ \A n \in Submitted : \A a \in Ancestors(n) : reported[a] \notin {FAILED, CANCELLED}
    /\ RunOver => Submitted = {n \in Nodes : Eligible(n)}

C1_Witness ==
    /\ RunOver
    /\ \E n \in Submitted : Parents(n) # {}
    /\ \E m \in Nodes \ Submitted :
          \E a \in Ancestors(m) : reported[a] \in {FAILED, CANCELLED}

\* C2: within one run every node is submitted at most once and returned as
\* newly ready at most once; its counter never goes below zero, is zero once
\* it was returned ready, and a submitted node with parents was returned ready.
C2_SubmittedAtMostOnce ==
    \A n \in Nodes :
       /\ submit_count[n] <= 1
       /\ ready_count[n] <= 1
       /\ pending_parents[n] >= 0
       /\ ready_count[n] = 1 => pending_parents[n] = 0
       /\ (submit_count[n] = 1 /\ in_degree(n) > 0) => ready_count[n] = 1

C2_Witness ==
    /\ RunOver
    /\ \E n \in Nodes : in_degree(n) = 2 /\ submit_count[n] = 1 /\ ready_count[n] = 1

IsParameter(n) == startswith(name[n], parameter_prefix)

\* C3: when every submitted node has its one terminal entry delivered and no
\* call of the data service raises, a run that has started reaches
\* unresolved_tasks = 0, finalizes and returns; this holds with parameter
\* nodes, for which no runner task is created.
C3_LoopTerminates ==
    (pc # "idle" /\ caps.fault = 0) ~> (RunOver /\ unresolved_tasks = 0)

C3_Witness ==
    /\ RunOver
    /\ unresolved_tasks = 0
    /\ \E n \in Submitted : IsParameter(n) /\ runner_task[n] = "none" /\ consumed[n] = 1
    /\ \E n \in Submitted : ~ IsParameter(n) /\ reported[n] = FAILED /\ consumed[n] = 1

\* The chain 0 -> 1 -> ... over all the nodes.
ChainLinks == {<<i, i + 1>> : i \in 0 .. (NumNodes - 2)}
NoneIncomplete == \A n \in Nodes : reported[n] \notin {FAILED, CANCELLED}
IsPostprocess(n) == startswith(name[n], postprocess_prefix)

\* C4 as stated: after a run of the chain in which no node fails or is
\* cancelled, every node is stored COMPLETED and the stored and the returned
\* dispatch status are COMPLETED.
C4_Original ==
    (RunOver /\ links = ChainLinks /\ NoneIncomplete) =>
        /\ \A n \in Nodes : tg[n].status = COMPLETED
        /\ meta.status = COMPLETED
        /\ dispatch_status = COMPLETED

\* C4 amended: the same, for a chain whose last node is the postprocess node;
\* every node of a chain without failures is stored COMPLETED anyway.
C4_ChainCompletes ==
    (RunOver /\ links = ChainLinks /\ NoneIncomplete) =>
        /\ \A n \in Nodes : tg[n].status = COMPLETED
        /\ IsPostprocess(NumNodes - 1) =>
              (meta.status = COMPLETED /\ dispatch_status = COMPLETED)

C4_Witness ==
    /\ RunOver /\ links = ChainLinks /\ NoneIncomplete
    /\ IsPostprocess(NumNodes - 1)
    /\ meta.status = COMPLETED

\* The fan-out 0 -> 1, 0 -> 2.
FanOutLinks == {<<0, 1>>, <<0, 2>>}
Contains(text, piece) ==
    \E i \in 1 .. (Len(text) - Len(piece) + 1) :
        SubSeq(text, i, i + Len(piece) - 1) = piece
StoredWith(status) == {n \in Nodes : tg[n].status = status}

\* The line "{node_id}: {node_name}" of node n.
Entry(n) == <<ToString(n), ": ">> \o name[n]

\* C5: in the fan-out where node 1 reports FAILED and node 2 COMPLETED, in any
\* order, the dispatch ends FAILED, the error names node 1 and node 2 is stored
\* COMPLETED.
C5_FailedSiblingIsolated ==
    (/\ RunOver /\ links = FanOutLinks
     /\ reported[0] = COMPLETED /\ reported[1] = FAILED /\ reported[2] = COMPLETED) =>
        /\ meta.status = FAILED
        /\ dispatch_status = FAILED
        /\ Contains(meta.error, Entry(1))
        /\ tg[2].status = COMPLETED

C5_Witness ==
    /\ RunOver /\ links = FanOutLinks
    /\ reported[0] = COMPLETED /\ reported[1] = FAILED /\ reported[2] = COMPLETED
    /\ IsPostprocess(2)
    /\ meta.status = FAILED

\* The step in which the loop ends and _finalize_dispatch runs.
FinalizeStep == pc = "wait" /\ pc' = "idle" /\ raised' = {}

\* C6: when _finalize_dispatch finds a node stored FAILED or CANCELLED it
\* persists FAILED if a node is FAILED and CANCELLED otherwise, with an error
\* message and the end_time it reads.
C6_FinalizePersistsIncomplete ==
    [][(FinalizeStep /\ StoredWith(FAILED) \cup StoredWith(CANCELLED) # {}) =>
          /\ meta'.status = IF StoredWith(FAILED) # {} THEN FAILED ELSE CANCELLED
          /\ dispatch_status' = meta'.status
          /\ meta'.error # NoError
          /\ SubSeq(meta'.error, 1, Len(ErrorHeader)) = ErrorHeader
          /\ meta'.end_time \in NowValues]_vars

C6_Witness ==
    /\ RunOver
    /\ StoredWith(FAILED) = {} /\ StoredWith(CANCELLED) # {}
    /\ meta.status = CANCELLED /\ meta.end_time # NoTime

\* The lines of a text.
RECURSIVE split(_, _)
split(text, sep) ==
    IF \E i \in 1 .. Len(text) : text[i] = sep
    THEN LET i == CHOOSE k \in 1 .. Len(text) :
                     text[k] = sep /\ \A j \in 1 .. (k - 1) : text[j] # sep
         IN  <<SubSeq(text, 1, i - 1)>> \o split(SubSeq(text, i + 1, Len(text)), sep)
    ELSE <<text>>

\* The entries that follow the header of an error message, one per line.
EntriesOf(error) ==
    LET lines == split(error, "\n")
    IN  IF Len(lines) = 2 /\ lines[2] = << >> THEN << >> ELSE Tail(lines)
Range(f) == {f[k] : k \in DOMAIN f}
HasOneEntryFor(error, S) ==
    /\ Len(error) >= 2 /\ SubSeq(error, 1, 2) = ErrorHeader
    /\ Range(EntriesOf(error)) = {Entry(n) : n \in S}
    /\ Len(EntriesOf(error)) = Cardinality(S)

\* C7 as stated: after the finalization of a dispatch with failed or cancelled
\* nodes the error is the header followed by one entry for every failed and
\* every cancelled node, and no other entry.
C7_Original ==
    (RunOver /\ StoredWith(FAILED) \cup StoredWith(CANCELLED) # {}) =>
        HasOneEntryFor(meta.error, StoredWith(FAILED) \cup StoredWith(CANCELLED))

\* C7 amended: the error is the header followed by one entry for every failed
\* node, and no other entry; cancelled nodes are not listed.
C7_ErrorListsFailedNodes ==
    (RunOver /\ StoredWith(FAILED) \cup StoredWith(CANCELLED) # {}) =>
        HasOneEntryFor(meta.error, StoredWith(FAILED))

C7_Witness ==
    /\ RunOver
    /\ StoredWith(FAILED) # {} /\ StoredWith(CANCELLED) # {}
    /\ Len(EntriesOf(meta.error)) = Cardinality(StoredWith(FAILED))

\* C8: taking a DISPATCHING entry leaves unresolved_tasks as it is, and the run
\* is not over before the terminal entry of every node whose DISPATCHING entry
\* was taken has been taken too.
C8_DispatchingKeepsNodeOutstanding ==
    /\ [][dispatching_consumed' # dispatching_consumed =>
             unresolved_tasks' = unresolved_tasks]_vars
    /\ [](RunOver => \A n \in dispatching_consumed : consumed[n] = 1)

C8_Witness ==
    /\ RunOver
    /\ \E n \in dispatching_consumed : consumed[n] = 1 /\ sub_tasks[sub_id(n)] = 1

\* C9: run_workflow on a dispatch stored COMPLETED, once it has read that
\* status, returns COMPLETED, submits nothing, registers no queue and writes
\* nothing to the store; it only calls finalize_dispatch of the data service.
C9_CompletedShortCircuits ==
    [][(pc = "idle" /\ meta.status = COMPLETED /\ runs' # runs /\ raised' = {}) =>
          /\ dispatch_status' = COMPLETED
          /\ pc' = "idle"
          /\ finalize_calls' = finalize_calls + 1
          /\ UNCHANGED <<tg, meta, status_queues, submit_count, runner_task,
                         sub_tasks, persist_calls, unresolved_tasks>>]_vars

C9_Witness ==
    /\ short_circuited /\ pc = "idle"
    /\ dispatch_status = COMPLETED
    /\ runs = 2 /\ finalize_calls = 2 /\ persist_calls = 1

\* C10: once _submit_task was called for a parameter node, the node is stored
\* COMPLETED with its value as output and start_time = end_time, and no runner
\* task was created for it.
C10_ParameterCompletesAtOnce ==
    \A n \in Submitted :
        IsParameter(n) =>
            /\ tg[n].status = COMPLETED
            /\ tg[n].output = value[n]
            /\ tg[n].start_time = tg[n].end_time
            /\ runner_task[n] = "none"

\* A call of run_workflow ends: it returns or an exception leaves it.
CallEnds == pc' = "idle" /\ (runs' # runs \/ pc # "idle")

\* C11: a call of run_workflow in which a call of the data service raised
\* stores FAILED with the traceback and returns FAILED, and every call that runs
\* the loop ends with one more persist_result and one more finalize_dispatch.
C11_ExceptionsCaught ==
    [][(CallEnds /\ ~ short_circuited') =>
          /\ persist_calls' = persist_calls + 1
          /\ finalize_calls' = finalize_calls + 1
          /\ raised' # {} =>
                /\ meta'.status = FAILED
                /\ meta'.error = Traceback
                /\ dispatch_status' = FAILED]_vars

Unresolvable(n) == ~ IsParameter(n) /\ get_executor(executor[n]).raises # None

\* C12: once a node whose executor cannot be resolved was submitted, the
\* submission has raised and run_workflow's handler has ended the dispatch
\* with status FAILED and the traceback as error; no runner task retries it.
C12_UnresolvedExecutorAborts ==
    \A n \in Submitted :
        Unresolvable(n) =>
            /\ pc = "idle"
            /\ "try" \in raised
            /\ meta.status = FAILED
            /\ meta.error = Traceback
            /\ dispatch_status = FAILED
            /\ runner_task[n] = "none"

\* The place of a stored node status in the order not yet run, running, terminal.
Rank(status) ==
    IF status \in Terminal THEN 2
    ELSE IF status \in {RUNNING, DISPATCHING} THEN 1 ELSE 0

\* C13: the stored status of a node only moves forward, and once it is
\* COMPLETED, FAILED or CANCELLED no step changes it.
C13_NodeStatusMonotone ==
    [][\A n \in Nodes :
          /\ Rank(tg'[n].status) >= Rank(tg[n].status)
          /\ tg[n].status \in Terminal => tg'[n].status = tg[n].status]_vars

\* Run_workflow has just computed the initial tasks.
LoopStarts == pc = "idle" /\ pc' # "idle"
DiamondEdges == {<<0, 1>>, <<0, 2>>, <<1, 3>>, <<2, 3>>}

\* C14: _get_initial_tasks_and_deps returns the number of nodes, for every
\* node the number of its incoming edges, and as ready nodes exactly the nodes
\* without incoming edge; for the edges (0,1), (0,2), (1,3), (2,3) it returns
\* 4, [0] and {0: 0, 1: 1, 2: 1, 3: 2}.
C14_InitialTasksAndDeps ==
    /\ [][LoopStarts =>
             /\ tasks_left' = NumNodes
             /\ DOMAIN pending_parents' = Nodes
             /\ \A n \in Nodes : pending_parents'[n] = Cardinality(Parents(n))
             /\ Range(ready_nodes') = {n \in Nodes : Parents(n) = {}}
             /\ Len(ready_nodes') = Cardinality({n \in Nodes : Parents(n) = {}})]_vars
    /\ [](initial_tasks_and_deps(0 .. 3, DiamondEdges) =
             [num_tasks |-> 4, ready_nodes |-> <<0>>,
              pending_parents |-> (0 :> 0 @@ 1 :> 1 @@ 2 :> 1 @@ 3 :> 2)])

C14_Witness ==
    /\ pc = "submit" /\ runs = 1 /\ submit_count = [n \in Nodes |-> 0]
    /\ tasks_left = NumNodes
    /\ \E n \in Nodes : pending_parents[n] = 2
    /\ Len(ready_nodes) = 1

\* The result of _get_abstract_task_inputs on the edges `incoming`.
InputsResult == abs_task_input[NumNodes - 1]
ArgPositions ==
    {k \in 1 .. Len(incoming) :
        ~ incoming[k].attrs.wait_for /\ incoming[k].attrs.param_type = "arg"}
KwargPositions ==
    {k \in 1 .. Len(incoming) :
        ~ incoming[k].attrs.wait_for /\ incoming[k].attrs.param_type = "kwarg"}

\* C15: 'args' lists the sources of the non-wait_for 'arg' edges, one per edge,
\* in ascending arg_index; 'kwargs' maps the edge_name of every non-wait_for
\* 'kwarg' edge to the source of such an edge; wait_for edges add nothing, and
\* the values are node ids.
C15_AbstractTaskInputs ==
    InputsResult # << >> =>
        LET r == InputsResult[1]
        IN  /\ Len(r.args) = Cardinality(ArgPositions)
            /\ \E f \in [1 .. Len(r.args) -> ArgPositions] :
                  /\ \A i, j \in 1 .. Len(r.args) : i # j => f[i] # f[j]
                  /\ \A i \in 1 .. Len(r.args) : r.args[i] = incoming[f[i]].source
                  /\ \A i, j \in 1 .. Len(r.args) :
                        i < j => incoming[f[i]].attrs.arg_index <=
                                    incoming[f[j]].attrs.arg_index
            /\ DOMAIN r.kwargs = {incoming[k].attrs.edge_name : k \in KwargPositions}
            /\ \A key \in DOMAIN r.kwargs :
                  \E k \in KwargPositions :
                     /\ incoming[k].attrs.edge_name = key
                     /\ r.kwargs[key] = incoming[k].source
            /\ \A i \in 1 .. Len(r.args) : r.args[i] \in Nodes

C15_Witness ==
    /\ InputsResult # << >>
    /\ Len(incoming) = 3
    /\ incoming[1] = [source |-> 0, attrs |-> ArgEdge(1)]
    /\ incoming[2] = [source |-> 0, attrs |-> WaitForEdge]
    /\ incoming[3] = [source |-> 1, attrs |-> ArgEdge(0)]
    /\ InputsResult[1].args = <<1, 0>>

\* C16: the child of a wait_for edge is not submitted before the COMPLETED
\* entry of the edge's parent was taken, it waits with a positive counter until
\* then, and the parent is not among the abstract inputs of the child.
C16_WaitForBlocks ==
    \A l \in wait_for :
        /\ submit_count[l[2]] > 0 =>
              (consumed[l[1]] >= 1 /\ reported[l[1]] = COMPLETED)
        /\ (pc # "idle" /\ consumed[l[1]] = 0) => pending_parents[l[2]] >= 1
        /\ abs_task_input[l[2]] # << >> =>
              /\ l[1] \notin Range(abs_task_input[l[2]][1].args)
              /\ l[1] \notin Range(abs_task_input[l[2]][1].kwargs)

C16_Witness ==
    \E l \in wait_for :
        /\ submit_count[l[2]] = 1 /\ consumed[l[1]] = 1
        /\ abs_task_input[l[2]] # << >>
        /\ Len(abs_task_input[l[2]][1].args) = 1
        /\ in_degree(l[2]) = 2

\* C17: _finalize_dispatch returns the status that is in the store after its
\* own write, if any: FAILED or CANCELLED after its write, and otherwise what
\* another writer, such as the completion of the postprocess node, has stored.
C17_ReturnsStoredStatus ==
    [][FinalizeStep =>
          /\ dispatch_status' = meta'.status
          /\ StoredWith(FAILED) \cup StoredWith(CANCELLED) = {} =>
                dispatch_status' = meta.status]_vars

C17_Witness ==
    /\ RunOver
    /\ StoredWith(FAILED) \cup StoredWith(CANCELLED) = {}
    /\ IsPostprocess(NumNodes - 1) /\ tg[NumNodes - 1].status = COMPLETED
    /\ meta.status = COMPLETED /\ dispatch_status = COMPLETED

\* The step is a call of notify_node_status with this entry by a runner task:
\* the task's terminal report or its DISPATCHING report.
Notifies(entry) ==
    \E n \in Nodes :
       \/ /\ runner_task[n] # "done" /\ runner_task'[n] = "done"
          /\ entry = <<n, reported'[n], NoDetail>>
       \/ /\ runner_task[n] = "created" /\ runner_task'[n] = "dispatching"
          /\ entry = <<n, DISPATCHING, SubDetail(n)>>

NotifyEntries ==
    (Nodes \X Terminal \X {NoDetail}) \cup {<<n, DISPATCHING, SubDetail(n)>> : n \in Nodes}

\* C18: notify_node_status for a dispatch that has no registered queue fails
\* with an error and leaves every queue as it is; for a dispatch whose loop is
\* active it appends exactly (node_id, status, detail) to that dispatch's queue
\* and to no other.
C18_NotifyNodeStatus ==
    [][\A entry \in NotifyEntries :
          Notifies(entry) =>
             IF dispatch_id \in DOMAIN status_queues
             THEN /\ notify_errors' = notify_errors
                  /\ DOMAIN status_queues' = DOMAIN status_queues
                  /\ status_queues'[dispatch_id] =
                         Append(status_queues[dispatch_id], entry)
                  /\ \A d \in DOMAIN status_queues \ {dispatch_id} :
                         status_queues'[d] = status_queues[d]
             ELSE /\ notify_errors' = notify_errors + 1
                  /\ status_queues' = status_queues]_vars

\* A runner task has reported after the run was aborted and its queue removed,
\* while the queue of the other dispatch is registered; an earlier report of
\* the same run was delivered to the loop.
C18_Witness ==
    /\ notify_errors > 0
    /\ dispatch_id \notin DOMAIN status_queues
    /\ other_dispatch_id \in DOMAIN status_queues
    /\ \E n \in Nodes : runner_task[n] = "done" /\ consumed[n] > 0

\* C19: when the _update_node calls that mark the nodes of the dispatch
\* COMPLETED execute at the same time, no increment is lost: with each node
\* marked at most once and no call under way, completed_electron_num is the
\* number of nodes stored COMPLETED.
C19_NoLostIncrement ==
    (runs <= 1 /\ \A n \in Nodes : runner_task[n] # "updating") =>
        meta.completed_electron_num = Cardinality(StoredWith(COMPLETED))

\* The run_workflow task of sub-dispatch d is on its way.
SubRunning(d) == sub_pc[d] \in {"created", "wait", "notified"}

\* C20: on a DISPATCHING entry the loop starts run_workflow of the sub-dispatch
\* as a task of its own and goes on waiting for its own entries, the task not
\* having run; the steps of the sub-dispatch put its entries on its own queue
\* and leave the parent's queue, loop and store as they are.
C20_SubDispatchIndependent ==
    [][/\ \A d \in SubDispatchIds :
             sub_tasks'[d] # sub_tasks[d] =>
                /\ sub_tasks'[d] = sub_tasks[d] + 1
                /\ sub_pc'[d] = "created"
                /\ pc' = "wait"
                /\ unresolved_tasks' = unresolved_tasks
                /\ status_queues'[dispatch_id] = Tail(status_queues[dispatch_id])
       /\ \A d \in SubDispatchIds :
             (SubRunning(d) /\ sub_pc'[d] # sub_pc[d]) =>
                /\ UNCHANGED <<tg, meta, pc, ready_nodes, unresolved_tasks, tasks_left,
                               pending_parents, dispatch_status, runner_task>>
                /\ \A e \in DOMAIN status_queues \ {d} :
                       e \in DOMAIN status_queues' /\ status_queues'[e] = status_queues[e]
                /\ DOMAIN status_queues' \subseteq DOMAIN status_queues \cup {d}
                /\ sub_pc'[d] = "notified" =>
                       /\ Len(status_queues'[d]) = Len(status_queues[d]) + 1
                       /\ status_queues'[d][Len(status_queues'[d])][2] \in Terminal]_vars

\* The sub-dispatch of node n is running with its entry on its own queue; the
\* parent loop, which took n's DISPATCHING entry before, has since taken
\* another node's COMPLETED entry and is submitting a further node.
C20_Witness ==
    \E n \in dispatching_consumed :
       /\ sub_pc[sub_id(n)] = "notified"
       /\ status_queues[sub_id(n)] # << >>
       /\ runner_task[n] = "dispatching"
       /\ pc = "submit" /\ ready_nodes # << >>
       /\ \E m \in Nodes \ {n} : consumed[m] > 0 /\ reported[m] = COMPLETED

Descendants(n) == {d \in Nodes : n \in Ancestors(d)}
Incomplete == {n \in Nodes : reported[n] \in {FAILED, CANCELLED}}

\* C21: when a node has failed or was cancelled, none of its descendants is
\* submitted and their stored status is not terminal, also once the dispatch
\* is finalized, and the dispatch run to its end is reported FAILED, or
\* CANCELLED when nodes were cancelled only.
C21_DescendantsStayBlocked ==
    /\ \A n \in Incomplete : \A d \in Descendants(n) :
           submit_count[d] = 0 /\ tg[d].status \notin Terminal
    /\ (RunOver /\ Incomplete # {}) =>
           dispatch_status = (IF \E n \in Nodes : reported[n] = FAILED
                              THEN FAILED ELSE CANCELLED)

\* C22: a call of run_workflow for a dispatch of which a node, or the dispatch
\* itself, is stored COMPLETED returns without changing anything: it writes no
\* dispatch or node status, registers no queue and starts no loop, so that no
\* node is submitted or run again.
C22_RedispatchChangesNothing ==
    [][(/\ pc = "idle" /\ runs' # runs
        /\ (meta.status = COMPLETED \/ StoredWith(COMPLETED) # {})) =>
           /\ pc' = "idle"
           /\ UNCHANGED <<tg, meta, status_queues, runner_task>>]_vars

\* C23: a dispatch id has at most one active loop at any time, and the entry
\* that a runner task of the sub-dispatch has posted is on the queue that the
\* loop which submitted the node waits on, also when run_dispatch was called
\* again for the id while its loop was running.
C23_OneLoopPerDispatch ==
    \A d \in SubDispatchIds :
       /\ ~ (sub_pc[d] \in {"wait", "notified"} /\ sub_again[d] = "wait")
       /\ sub_pc[d] = "notified" => own_queue(d) # << >>

\* The loop has taken the COMPLETED entry of node p.
CompletedTaken(p) == consumed[p] = 1 /\ reported[p] = COMPLETED
LastNode == NumNodes - 1

\* C24: with k >= 2 edges from one parent into the last node, the counter of
\* that node is seeded with the number of all its incoming edges and the
\* COMPLETED entry of a parent takes one from it for each edge of that parent;
\* the node is returned ready once, with the entry of the last of its parents,
\* and is submitted once when all its parents have completed.
C24_ParallelEdges ==
    runs > 0 =>
       /\ pending_parents[LastNode] =
              Cardinality({k \in 1 .. Len(incoming) : ~ CompletedTaken(incoming[k].source)})
       /\ ready_count[LastNode] <= 1 /\ submit_count[LastNode] <= 1
       /\ incoming # << >> =>
              (ready_count[LastNode] = 1 <=>
                  \A k \in 1 .. Len(incoming) : CompletedTaken(incoming[k].source))
       /\ (RunOver /\ \A k \in 1 .. Len(incoming) : CompletedTaken(incoming[k].source)) =>
              submit_count[LastNode] = 1

C24_Witness ==
    /\ RunOver
    /\ Cardinality(incoming_from(0)) >= 2 /\ Cardinality(incoming_from(1)) >= 1
    /\ ready_count[LastNode] = 1 /\ submit_count[LastNode] = 1
    /\ reported[LastNode] = COMPLETED /\ consumed[LastNode] = 1

\* The dispatch status that the outcomes of the submitted nodes determine.
OutcomeStatus ==
    IF \E n \in Submitted : reported[n] = FAILED THEN FAILED
    ELSE IF \E n \in Submitted : reported[n] = CANCELLED THEN CANCELLED
    ELSE IF \E n \in Submitted : IsPostprocess(n) THEN COMPLETED
    ELSE RUNNING

\* C25: the result of the run of a new dispatch is a function of the graph and
\* of the outcome of each node, whatever the order of the entries on the
\* queue: the submitted nodes are the nodes all of whose ancestors completed,
\* every submitted node is stored with its outcome and every other node as
\* new, and the returned dispatch status is the one the outcomes determine.
C25_OrderIndependent ==
    (RunOver /\ runs = 1) =>
        /\ Submitted = {n \in Nodes : Eligible(n)}
        /\ \A n \in Nodes :
               tg[n].status = (IF n \in Submitted THEN reported[n] ELSE NEW_OBJECT)
        /\ dispatch_status = OutcomeStatus

\* Two nodes without parents: the one submitted first has reported after the
\* other, with another outcome, and a child of the completed one was run.
C25_Witness ==
    /\ RunOver /\ runs = 1
    /\ Parents(0) = {} /\ Parents(1) = {}
    /\ ~ IsParameter(0) /\ ~ IsParameter(1)
    /\ tg[1].end_time < tg[0].end_time
    /\ reported[0] = FAILED /\ reported[1] = COMPLETED
    /\ \E n \in Submitted : 1 \in Parents(n)

\* The step of the loop that takes the entry at the head of its queue.
TakesEntry ==
    /\ pc = "wait" /\ unresolved_tasks > 0
    /\ dispatch_id \in DOMAIN status_queues
    /\ status_queues[dispatch_id] # << >>
    /\ dispatch_id \in DOMAIN status_queues'
    /\ status_queues'[dispatch_id] = Tail(status_queues[dispatch_id])

HeadStatus == Head(status_queues[dispatch_id])[2]

\* C26: taking a RUNNING entry leaves unresolved_tasks, tasks_left and every
\* counter of pending_parents as they are, makes no node ready, submits no node
\* and writes nothing to the store; the loop waits for the next entry.
C26_RunningChangesNothing ==
    [][(TakesEntry /\ HeadStatus = RUNNING) =>
          /\ pc' = "wait"
          /\ UNCHANGED <<unresolved_tasks, tasks_left, pending_parents, ready_nodes>>
          /\ UNCHANGED <<submit_count, ready_count, runner_task, abs_task_input>>
          /\ UNCHANGED <<tg, meta, persist_calls, finalize_calls>>]_vars

\* The RUNNING entry of a node has been taken and the loop waits for the
\* terminal entry of that node.
C26_Witness ==
    /\ pc = "wait" /\ running_events > 0
    /\ dispatch_id \in DOMAIN status_queues
    /\ status_queues[dispatch_id] = << >>
    /\ unresolved_tasks > 0
    /\ \E n \in Nodes : tg[n].status = RUNNING /\ submit_count[n] = 1 /\ consumed[n] = 0

\* C27: taking a FAILED or CANCELLED entry takes exactly one from
\* unresolved_tasks and leaves tasks_left and every counter of pending_parents
\* as they are; it makes no node ready, submits no node and writes nothing to
\* the store, so no successor gets a status.
C27_IncompleteOnlyCounts ==
    [][(TakesEntry /\ HeadStatus \in {FAILED, CANCELLED}) =>
          /\ unresolved_tasks' = unresolved_tasks - 1
          /\ pc' = "wait"
          /\ UNCHANGED <<tasks_left, pending_parents, ready_nodes>>
          /\ UNCHANGED <<submit_count, ready_count, runner_task>>
          /\ UNCHANGED <<tg, meta>>]_vars

\* The FAILED entry of a node with a child and the CANCELLED entry of another
\* node have been taken; the child is stored as new and still waits.
C27_Witness ==
    /\ runs = 1 /\ pc = "wait"
    /\ \E n \in Nodes :
          /\ consumed[n] = 1 /\ reported[n] = FAILED
          /\ \E c \in Children(n) :
                /\ tg[c].status = NEW_OBJECT
                /\ pending_parents[c] = Cardinality(Parents(c))
    /\ \E n \in Nodes : consumed[n] = 1 /\ reported[n] = CANCELLED

\* The step that submits the first node of a run.
FirstSubmission ==
    /\ runs' = runs
    /\ \A n \in Nodes : submit_count[n] = 0
    /\ submit_count' # submit_count

\* The step in which _finalize_dispatch is called and returns.
FinalizerReturns == pc = "wait" /\ pc' = "idle" /\ ~ ("try" \in raised')

\* The step that ends a call of run_workflow that is not short-circuited.
RunEnds == pc' = "idle" /\ ~ short_circuited' /\ (pc # "idle" \/ runs' # runs)

\* The step that enters the loop of a run writes RUNNING and the start_time
\* with no node submitted yet, and nodes are submitted only inside the loop.
RunningPersistedFirst ==
    [][/\ (runs' # runs /\ pc' # "idle") =>
             /\ meta'.status = RUNNING
             /\ meta'.start_time = clock' /\ meta'.start_time # NoTime
             /\ \A n \in Nodes : submit_count'[n] = 0
       /\ FirstSubmission => pc = "submit" /\ runs > 0]_vars

FinalizerAfterLoop ==
    [][FinalizerReturns =>
          /\ unresolved_tasks = 0 /\ ready_nodes = << >>
          /\ submit_count' = submit_count /\ runner_task' = runner_task]_vars

\* The claim as stated: every run that is not short-circuited ends with the
\* call of the finalizer.
C28_Original ==
    /\ RunningPersistedFirst
    /\ FinalizerAfterLoop
    /\ [][RunEnds => FinalizerReturns]_vars

\* C28: in a run that is not short-circuited, RUNNING and a start_time are
\* written before the first node is submitted; the finalizer is called only when
\* unresolved_tasks is 0 and every ready node has been submitted, and nothing
\* is submitted after it; every run in which no call raises before the
\* finalizer returns ends with that one call of the finalizer.
C28_RunningFirstFinalizerLast ==
    /\ RunningPersistedFirst
    /\ FinalizerAfterLoop
    /\ [][(RunEnds /\ raised' \cap {"read", "try"} = {}) => FinalizerReturns]_vars

\* A run is over in which a node was submitted after the entry of its parent.
C28_Witness ==
    /\ RunOver
    /\ meta.start_time # NoTime
    /\ unresolved_tasks = 0
    /\ \E n \in Nodes : Parents(n) # {} /\ submit_count[n] = 1 /\ consumed[n] = 1

\* C29: in a run that is not short-circuited the queue of the dispatch is in
\* _status_queues while nodes are submitted, and once run_workflow has returned
\* or raised, _status_queues has no entry for the dispatch.
C29_QueueLifecycle ==
    /\ (pc # "idle" /\ Submitted # {}) => dispatch_id \in DOMAIN status_queues
    /\ pc = "idle" => ~ (dispatch_id \in DOMAIN status_queues)

\* C30: when no node is stored FAILED or CANCELLED, the call of
\* _finalize_dispatch leaves the dispatch record as it was (status, error and
\* end_time included), and the status it returns, which run_workflow returns
\* when its cleanup does not raise, is the status stored before the call.
C30_FinalizerWritesNothing ==
    [][(FinalizerReturns /\ StoredWith(FAILED) \cup StoredWith(CANCELLED) = {}) =>
          /\ meta' = meta
          /\ raised' = {} => dispatch_status' = meta.status]_vars

\* A run of nodes that all completed, none of them the postprocess node, is
\* over: the record is still RUNNING, without error and without end_time.
C30_Witness ==
    /\ RunOver /\ runs = 1
    /\ \A n \in Nodes : tg[n].status = COMPLETED
    /\ \E n \in Nodes : ~ IsParameter(n)
    /\ meta.status = RUNNING /\ meta.error = NoError /\ meta.end_time = NoTime
    /\ dispatch_status = RUNNING

\* The arguments _update_node may be called with.
TimeArgs == {NoTime, MaxClock}
StatusArgs == {None, RUNNING, COMPLETED, FAILED}
OutputArgs == {None, "out"}

\* The fields of the dispatch record the postprocessing branch writes.
DispatchOutcome(m) == <<m.status, m.end_time, m.result>>

\* C31: in every state of the store, _update_node of the postprocess node with
\* an end_time leaves that end_time, the status passed and the output of the
\* node as end_time, status and result of the dispatch, and _update_node of
\* another node, or without end_time, leaves these three fields as they are;
\* so a step that writes only nodes that are not the postprocess node changes
\* none of them.
C31_PostprocessWritesDispatch ==
    /\ [](\A node_id \in Nodes, start_time \in TimeArgs, end_time \in TimeArgs,
             status \in StatusArgs, output \in OutputArgs :
             LET r == _update_node(tg, meta, node_id, start_time, end_time, status, output)
             IN  IF startswith(name[node_id], postprocess_prefix) /\ end_time # NoTime
                 THEN /\ r.meta.end_time = end_time
                      /\ r.meta.status = (IF status # None THEN status ELSE meta.status)
                      /\ r.meta.result = r.tg[node_id].output
                 ELSE DispatchOutcome(r.meta) = DispatchOutcome(meta))
    /\ [][(tg' # tg /\ \A n \in Nodes : tg'[n] # tg[n] => ~ IsPostprocess(n)) =>
             DispatchOutcome(meta') = DispatchOutcome(meta)]_vars

\* The postprocess node has reported FAILED while another node has completed
\* and the loop has not ended: the record has the status and the end_time of
\* that report.
C31_Witness ==
    /\ pc = "wait" /\ runs = 1
    /\ \E n \in Nodes :
          /\ IsPostprocess(n) /\ tg[n].status = FAILED
          /\ meta.status = FAILED /\ meta.end_time = tg[n].end_time
          /\ meta.end_time # NoTime /\ meta.error = NoError
    /\ \E n \in Nodes : ~ IsParameter(n) /\ tg[n].status = COMPLETED

\* The step is the call of _submit_task for node n by the loop.
Submits(n) == runs' = runs /\ submit_count'[n] = submit_count[n] + 1

\* C32: the call of _submit_task for a node that is not a parameter leaves the
\* runner task of that node created and not yet run, creates or changes no
\* other task, and returns to the loop without an entry of the node put on the
\* queue or taken from it and without a write to the store; the loop goes on
\* with the next ready node, when there is one, and waits only then.
C32_SubmitCreatesOneTask ==
    [][\A n \in Nodes :
          (Submits(n) /\ ~ IsParameter(n)) =>
             /\ runner_task'[n] = "created"
             /\ \A m \in Nodes \ {n} : runner_task'[m] = runner_task[m]
             /\ reported' = reported /\ consumed' = consumed
             /\ status_queues' = status_queues /\ tg' = tg
             /\ unresolved_tasks' = unresolved_tasks + 1
             /\ pc = "submit"
             /\ pc' = (IF Len(ready_nodes) > 1 THEN "submit" ELSE "wait")]_vars

\* Two nodes that are not parameters have been submitted one after the other
\* and the task of neither has run: the loop waits for both.
C32_Witness ==
    /\ pc = "wait" /\ runs = 1 /\ unresolved_tasks >= 2
    /\ status_queues[dispatch_id] = << >>
    /\ \E n, m \in Nodes :
          /\ n # m /\ ~ IsParameter(n) /\ ~ IsParameter(m)
          /\ runner_task[n] = "created" /\ runner_task[m] = "created"
          /\ submit_count[n] = 1 /\ submit_count[m] = 1
          /\ reported[n] = None /\ reported[m] = None

\* The sum of a count per node over the nodes below k.
RECURSIVE TotalBelow(_, _)
TotalBelow(count, k) == IF k = 0 THEN 0 ELSE count[k - 1] + TotalBelow(count, k - 1)
Total(count) == TotalBelow(count, NumNodes)

\* C33: while the loop of a run is active, unresolved_tasks is the number of
\* submissions of the run less the number of COMPLETED, FAILED and CANCELLED
\* entries the loop has taken, and it is not negative.
C33_UnresolvedCounts ==
    pc # "idle" =>
       /\ unresolved_tasks = Total(submit_count) - Total(consumed)
       /\ unresolved_tasks >= 0

\* Three submissions and one terminal entry taken: two tasks are unresolved.
C33_Witness ==
    /\ pc = "wait" /\ runs = 1
    /\ Total(submit_count) = 3 /\ Total(consumed) = 1
    /\ unresolved_tasks = 2
    /\ \E n \in Nodes : consumed[n] = 1 /\ reported[n] = FAILED

\* No runner task is left over from an aborted call of run_workflow: every
\* report comes from a task the current run created, one terminal report for
\* each submitted node.
OneReportPerNode == runs = 1 \/ caps.fault = 0

\* C34: with one terminal report for each submitted node, while the loop of
\* a run is active and when it has ended, tasks_left is the number of nodes of the graph less the number of COMPLETED entries the
\* loop has taken; when the run is over and no node has reported FAILED or
\* CANCELLED, tasks_left is 0 and every node was submitted and has reported
\* COMPLETED.
C34_TasksLeftCounts ==
    /\ ((pc # "idle" \/ RunOver) /\ OneReportPerNode) =>
           tasks_left = NumNodes - Cardinality({n \in Nodes : CompletedTaken(n)})
    /\ (RunOver /\ NoneIncomplete /\ OneReportPerNode) =>
           /\ tasks_left = 0
           /\ \A n \in Nodes : submit_count[n] = 1 /\ reported[n] = COMPLETED

\* A run of a graph with a node of two parents is over with every node
\* completed, and no task is left.
C34_Witness ==
    /\ RunOver /\ runs = 1
    /\ tasks_left = 0
    /\ \A n \in Nodes : CompletedTaken(n)
    /\ \E n \in Nodes : Cardinality(Parents(n)) = 2

\* The edges into node n from a node whose COMPLETED entry was not taken.
EdgesPending(n) == {e \in links : e[2] = n /\ ~ CompletedTaken(e[1])}

\* C35: with one terminal report for each submitted node, while the loop of
\* a run is active and when it has ended, the counter of
\* every node is the number of edges into the node from a node whose COMPLETED
\* entry has not been taken, which is between 0 and the in-degree of the node;
\* a submitted node has the counter 0 and every parent of it is stored
\* COMPLETED.
C35_PendingParentsCounts ==
    ((pc # "idle" \/ RunOver) /\ OneReportPerNode) =>
       \A n \in Nodes :
          /\ pending_parents[n] = Cardinality(EdgesPending(n))
          /\ 0 <= pending_parents[n] /\ pending_parents[n] <= in_degree(n)
          /\ submit_count[n] > 0 =>
                /\ pending_parents[n] = 0
                /\ \A p \in Parents(n) : tg[p].status = COMPLETED

\* The loop waits with a node of two parents of which one has completed: its
\* counter is 1; a child of the completed parent alone has been submitted.
C35_Witness ==
    /\ pc = "wait" /\ runs = 1
    /\ \E n \in Nodes :
          /\ in_degree(n) = 2 /\ pending_parents[n] = 1 /\ submit_count[n] = 0
          /\ \E p \in Parents(n) : CompletedTaken(p) /\ ~ IsParameter(p)
    /\ \E n \in Nodes :
          in_degree(n) = 1 /\ pending_parents[n] = 0 /\ submit_count[n] = 1

\* The runner task of node n has not yet made its terminal report.
AwaitsTerminal(n) == runner_task[n] \in {"created", "dispatching", "updating"}

\* C36: once run_workflow has removed the queue of the dispatch, no node
\* submitted by the run has a runner task that has yet to report, and no
\* report of a runner task finds the queue missing.
C36_NoReportAfterRemoval ==
    /\ (runs > 0 /\ ~ (dispatch_id \in DOMAIN status_queues)) =>
           \A n \in Submitted : ~ AwaitsTerminal(n)
    /\ notify_errors = 0

\* The step in which a call of run_workflow returns a status: the call ends and
\* no exception leaves it.
Returns ==
    /\ pc' = "idle" /\ (pc # "idle" \/ runs' # runs)
    /\ raised' \cap {"read", "handler", "persist"} = {}

\* The claim as stated: the status returned is the stored one and is
\* COMPLETED, FAILED or CANCELLED.
C37_Original ==
    [][Returns => dispatch_status' = meta'.status /\ dispatch_status' \in Terminal]_vars

\* C37: the status run_workflow returns, after the short-circuit, after the
\* finalizer and after its exception handler, is the dispatch status stored
\* when it returns; it is COMPLETED, FAILED or CANCELLED, or it is RUNNING,
\* after the finalizer of a run in which no node is stored FAILED or
\* CANCELLED and nothing has written COMPLETED to the dispatch record.
C37_ReturnsStoredTerminalOrRunning ==
    [][Returns =>
          /\ dispatch_status' = meta'.status
          /\ dispatch_status' \in Terminal \cup {RUNNING}
          /\ dispatch_status' = RUNNING =>
                /\ FinalizerReturns
                /\ StoredWith(FAILED) \cup StoredWith(CANCELLED) = {}
                /\ meta.status = RUNNING /\ meta' = meta]_vars

\* A call has returned FAILED from its exception handler, with the traceback
\* stored as the error of the dispatch.
C37_Witness ==
    /\ pc = "idle" /\ runs = 1 /\ raised = {"try"}
    /\ dispatch_status = FAILED /\ meta.status = FAILED
    /\ meta.error = Traceback
    /\ Submitted # {}

\* C38: when a run is over with a node stored FAILED, the stored and the
\* returned dispatch status are FAILED, also when the postprocess node has
\* completed and has written COMPLETED before; and a call that returns
\* COMPLETED returns with no node stored FAILED or CANCELLED.
C38_FailedWins ==
    /\ []((RunOver /\ StoredWith(FAILED) # {}) =>
             (meta.status = FAILED /\ dispatch_status = FAILED))
    /\ [][(Returns /\ dispatch_status' = COMPLETED) =>
             \A n \in Nodes : tg'[n].status \notin {FAILED, CANCELLED}]_vars

\* The fields of the dispatch record that _update_dispatch and commit write.
Fields == {"start_time", "end_time", "status", "error", "result"}
Unset(f) == IF f \in {"start_time", "end_time"} THEN NoTime
            ELSE IF f = "error" THEN NoError ELSE None

\* The values the pending fields and the arguments of _update_dispatch take.
PendingArgs ==
    [start_time : {NoTime, 0}, end_time : {NoTime, MaxClock},
     status : {None, COMPLETED, FAILED}, error : {NoError, Traceback},
     result : {None, "out"}]

\* C39: in every state of the store, for every choice of pending fields and
\* of arguments, commit and _update_dispatch leave every field given as None
\* as it is stored and store every other one; commit leaves all the pending
\* fields None, so that a second commit, also after another write to the
\* record, writes nothing; and every _update_node call leaves the pending
\* fields None.
C39_WritesOnlySetFields ==
    /\ pending = NoPending
    /\ \A p \in PendingArgs :
          LET m1 == commit(meta, p)
              u1 == _update_dispatch(meta, p.start_time, p.end_time, p.status,
                                    p.error, p.result)
              p1 == commit_pending(p)
          IN  /\ \A f \in Fields :
                    /\ m1[f] = (IF p[f] = Unset(f) THEN meta[f] ELSE p[f])
                    /\ u1[f] = (IF p[f] = Unset(f) THEN meta[f] ELSE p[f])
              /\ m1.completed_electron_num = meta.completed_electron_num
              /\ u1.completed_electron_num = meta.completed_electron_num
              /\ p1 = NoPending
              /\ commit(m1, p1) = m1
              /\ commit(meta, p1) = meta

\* The postprocess node has failed while the dispatch was RUNNING: its
\* _update_node has committed the status and the end_time and nothing else,
\* and the pending fields are None again.
C39_Witness ==
    /\ pending = NoPending
    /\ pc = "wait" /\ runs = 1
    /\ \E n \in Nodes :
          /\ IsPostprocess(n) /\ tg[n].status = CANCELLED
          /\ meta.status = CANCELLED /\ meta.end_time = tg[n].end_time
    /\ meta.start_time # NoTime /\ meta.error = NoError /\ meta.result = None

====
